---- MODULE Spec2Model ----
(***************************************************************************)
(* A model of main.py: the YouTube -> Notion sync.                         *)
(*                                                                         *)
(* Text values (titles, ids, URLs, page ids) are sequences of integers.    *)
(* Python's None is the one-element sequence <<-1>>, the empty string is   *)
(* <<>>.  A property that a payload leaves out is Absent.                  *)
(***************************************************************************)
EXTENDS Integers, Sequences, FiniteSets, TLC

None == <<-1>>
Absent == <<-2>>

\* Python truthiness of an Optional[str]: None and '' are falsy.
Truthy(v) == v # None /\ v # <<>>

SliceNothing(s, n) == s

\* s[:n]
Slice(s, n) == IF Len(s) <= n THEN s ELSE SubSeq(s, 1, n)

\* The Notion limit the code cuts titles to: channel_name[:2000], data['Name'][:2000].
TitleLimit == 2000

YOUTUBE_BATCH_SIZE == 50

\* d.get(k, default) on a dict d (a function over its keys).
Get(d, k, default) == IF k \in DOMAIN d THEN d[k] ELSE default

Reverse(s) == [i \in 1..Len(s) |-> s[Len(s) + 1 - i]]

(***************************************************************************)
(* The remote store (two Notion databases).  A database is the sequence of *)
(* its pages in creation order; a page is a function over the database's   *)
(* properties (plus the page's icon or cover); its page id is made from    *)
(* its position.  Page ids carry a negative marker, so that no title or    *)
(* URL of the catalog is a page id.                                        *)
(***************************************************************************)
ChannelProps == {"Name", "Channel Id", "URL", "icon"}
VideoProps == {"Name", "Video Id", "Date", "Duration", "Category Id",
               "Category Name", "Thumbnail", "URL", "Channel", "cover"}

ChannelPageId(k) == <<-10, k>>
VideoPageId(k) == <<-11, k>>
PageIndex(page_id) == page_id[2]

\* The outcome of one remote call: HTTP 200, another status, or an exception.
Outcomes == {"ok", "status", "raised"}

\* One remote call as the store sees it.
Call(op, db, key, payload, res) ==
    [op |-> op, db |-> db, key |-> key, payload |-> payload, res |-> res]

NoPayload == [p \in {} |-> None]

\* POST /v1/pages: the new page holds the payload's properties, the others are empty.
NewPage(props, payload) ==
    [p \in props |-> IF payload[p] = Absent THEN None ELSE payload[p]]

\* PATCH /v1/pages/{id}: only the properties of the payload change.
PatchPage(page, payload) ==
    [p \in DOMAIN page |-> IF payload[p] = Absent THEN page[p] ELSE payload[p]]

\* The properties a payload holds.
Sent(payload) == {p \in DOMAIN payload : payload[p] # Absent}

\* v occurs in s as a contiguous run.
Contains(s, v) ==
    \E i \in 0..(Len(s) - Len(v)) : SubSeq(s, i + 1, i + Len(v)) = v

\* The store's rich_text filter conditions.
Matches(op, stored, value) ==
    IF op = "equals" THEN stored = value ELSE Contains(stored, value)

\* POST /v1/databases/{id}/query: the positions of the matching pages, oldest
\* first or newest first.
Query(db, prop, op, value, order) ==
    LET hits == SelectSeq([i \in 1..Len(db) |-> i],
                          LAMBDA i : Matches(op, db[i][prop], value))
    IN IF order = "asc" THEN hits ELSE Reverse(hits)

\* How the code reads a title, rich_text, date, select or relation property
\* back: its content when there is one, else ''.
ReadText(stored) == IF Truthy(stored) THEN stored ELSE <<>>

\* How the code reads a url property back: the property is in the page
\* (the store returns every property of the database), so .get('url', '')
\* gives its value, null when the page has no URL.
ReadUrl(stored) == stored

(***************************************************************************)
(* Owning entity (channel) operations.  env gives the outcome of the       *)
(* query (q), of the GET (g) and of the write (w) of one call, and the     *)
(* order in which the store lists matches.                                 *)
(***************************************************************************)
ChannelFilterOpContains == "contains"

\* "rich_text": {"equals": channel_id}
ChannelFilterOp == "equals"

ChannelPayload(channel_name, channel_id, channel_logo_url, channel_custom_url) ==
    [p \in ChannelProps |->
        CASE p = "Name" -> Slice(channel_name, TitleLimit)
          [] p = "Channel Id" -> channel_id
          [] p = "URL" -> IF Truthy(channel_custom_url) THEN channel_custom_url ELSE Absent
          [] p = "icon" -> IF Truthy(channel_logo_url) THEN channel_logo_url ELSE Absent]

\* The create whose result is dropped: the page is made, None is returned.
create_channel_entry_no_id(db, channel_name, channel_id, channel_logo_url, channel_custom_url, env) ==
    LET payload == ChannelPayload(channel_name, channel_id, channel_logo_url, channel_custom_url)
    IN [db |-> IF env.w = "ok" THEN Append(db, NewPage(ChannelProps, payload)) ELSE db,
        ret |-> None,
        calls |-> <<Call("create", "channel", None, payload, env.w)>>]

create_channel_entry(db, channel_name, channel_id, channel_logo_url, channel_custom_url, env) ==
    LET payload == ChannelPayload(channel_name, channel_id, channel_logo_url, channel_custom_url)
        new_id == ChannelPageId(Len(db) + 1)
    IN IF env.w = "ok"
       THEN [db |-> Append(db, NewPage(ChannelProps, payload)), ret |-> new_id,
             calls |-> <<Call("create", "channel", new_id, payload, env.w)>>]
       ELSE [db |-> db, ret |-> None,
             calls |-> <<Call("create", "channel", None, payload, env.w)>>]

\* A lookup that finds nothing, whatever the database holds.
check_if_channel_exists_never(db, channel_id, env) ==
    [ret |-> None,
     calls |-> <<Call("query", "channel", channel_id, NoPayload, env.q)>>]

check_if_channel_exists(db, channel_id, env) ==
    LET results == Query(db, "Channel Id", ChannelFilterOp, channel_id, env.order)
    IN [ret |-> IF env.q = "ok" /\ Len(results) > 0
                THEN ChannelPageId(results[1]) ELSE None,
        calls |-> <<Call("query", "channel", channel_id, NoPayload, env.q)>>]

get_existing_channel_data(db, existing_channel_id, env) ==
    LET page == db[PageIndex(existing_channel_id)]
    IN [ok |-> env.g = "ok",
        data |-> [k \in {"Name", "Channel Id", "URL"} |->
                    IF k = "URL" THEN ReadUrl(page[k]) ELSE ReadText(page[k])],
        calls |-> <<Call("get", "channel", existing_channel_id, NoPayload, env.g)>>]

update_channel_entry(db, existing_channel_id, channel_name, channel_id, channel_logo_url, channel_custom_url, env) ==
    LET got == get_existing_channel_data(db, existing_channel_id, env)
        existing_data == got.data
        update_required ==
            \/ existing_data["Name"] # channel_name
            \/ existing_data["URL"] # channel_custom_url
            \/ existing_data["Channel Id"] # channel_id
        payload == ChannelPayload(channel_name, channel_id, channel_logo_url, channel_custom_url)
        k == PageIndex(existing_channel_id)
    IN IF ~got.ok \/ ~update_required
       THEN [db |-> db, calls |-> got.calls]
       ELSE [db |-> IF env.w = "ok"
                    THEN [db EXCEPT ![k] = PatchPage(db[k], payload)] ELSE db,
             calls |-> got.calls \o
                       <<Call("update", "channel", existing_channel_id, payload, env.w)>>]

get_or_create_channel_entry(db, channel_name, channel_id, channel_logo_url, channel_custom_url, env) ==
    LET found == check_if_channel_exists(db, channel_id, env)
    IN IF Truthy(found.ret)
       THEN LET upd == update_channel_entry(db, found.ret, channel_name, channel_id,
                                            channel_logo_url, channel_custom_url, env)
            IN [db |-> upd.db, ret |-> found.ret, calls |-> found.calls \o upd.calls]
       ELSE LET made == create_channel_entry(db, channel_name, channel_id,
                                             channel_logo_url, channel_custom_url, env)
            IN [db |-> made.db, ret |-> made.ret, calls |-> found.calls \o made.calls]

(***************************************************************************)
(* Media (video) operations.  data is the dict get_video_stats builds.     *)
(***************************************************************************)
VideoFilterOpContains == "contains"

\* "rich_text": {"equals": video_id}
VideoFilterOp == "equals"

check_if_video_exists(db, video_id, env) ==
    LET results == Query(db, "Video Id", VideoFilterOp, video_id, env.order)
    IN [ret |-> IF env.q = "ok" /\ Len(results) > 0
                THEN VideoPageId(results[1]) ELSE None,
        calls |-> <<Call("query", "video", video_id, NoPayload, env.q)>>]

\* The keys of the dict get_existing_video_data returns.
ExistingVideoKeys == {"Name", "Date", "Duration", "Thumbnail", "URL",
                      "Category Id", "Category Name", "Channel"}

get_existing_video_data(db, existing_video_id, env) ==
    LET page == db[PageIndex(existing_video_id)]
    IN [ok |-> env.g = "ok",
        data |-> [k \in ExistingVideoKeys |->
                    IF k \in {"Thumbnail", "URL"}
                    THEN ReadUrl(page[k]) ELSE ReadText(page[k])],
        calls |-> <<Call("get", "video", existing_video_id, NoPayload, env.g)>>]

DifferingKeysOfIncoming(existing_data, data) ==
    {key \in DOMAIN data : Get(existing_data, key, <<>>) # data[key]}

\* The keys the loop of update_video_entry finds differing:
\* for key, value in data.items(): if key in existing_data and existing_data[key] != value
DifferingKeys(existing_data, data) ==
    {key \in DOMAIN data : key \in DOMAIN existing_data /\ existing_data[key] # data[key]}

\* existing_data after the loop: existing_data[key] = value for the differing keys.
MergedData(existing_data, data) ==
    [key \in DOMAIN existing_data |->
        IF key \in DifferingKeys(existing_data, data) THEN data[key] ELSE existing_data[key]]

\* The PATCH that also writes the merged 'Channel' as the relation.
UpdateVideoPayloadWithRelation(existing_data, data) ==
    [p \in VideoProps |->
        CASE p = "Name" -> Slice(existing_data["Name"], TitleLimit)
          [] p = "Video Id" -> data["Video Id"]
          [] p = "Date" -> existing_data["Date"]
          [] p = "Duration" -> Get(data, "Duration", <<>>)
          [] p = "Category Id" -> Get(data, "Category Id", <<>>)
          [] p = "Category Name" -> Get(data, "Category Name", <<>>)
          [] p = "Thumbnail" -> IF Truthy(Get(data, "Thumbnail", None))
                                THEN data["Thumbnail"] ELSE Absent
          [] p = "URL" -> IF Truthy(Get(data, "URL", None)) THEN data["URL"] ELSE Absent
          [] p = "Channel" -> existing_data["Channel"]
          [] p = "cover" -> IF Truthy(Get(data, "Thumbnail", None))
                            THEN data["Thumbnail"] ELSE Absent]

\* The PATCH without the date.
UpdateVideoPayloadNoDate(existing_data, data) ==
    [p \in VideoProps |->
        CASE p = "Name" -> Slice(existing_data["Name"], TitleLimit)
          [] p = "Video Id" -> data["Video Id"]
          [] p = "Duration" -> Get(data, "Duration", <<>>)
          [] p = "Category Id" -> Get(data, "Category Id", <<>>)
          [] p = "Category Name" -> Get(data, "Category Name", <<>>)
          [] p = "Thumbnail" -> IF Truthy(Get(data, "Thumbnail", None))
                                THEN data["Thumbnail"] ELSE Absent
          [] p = "URL" -> IF Truthy(Get(data, "URL", None)) THEN data["URL"] ELSE Absent
          [] p = "cover" -> IF Truthy(Get(data, "Thumbnail", None))
                            THEN data["Thumbnail"] ELSE Absent
          [] OTHER -> Absent]

\* The properties and cover of the PATCH of update_video_entry.
UpdateVideoPayload(existing_data, data) ==
    [p \in VideoProps |->
        CASE p = "Name" -> Slice(existing_data["Name"], TitleLimit)
          [] p = "Video Id" -> data["Video Id"]
          [] p = "Date" -> existing_data["Date"]
          [] p = "Duration" -> Get(data, "Duration", <<>>)
          [] p = "Category Id" -> Get(data, "Category Id", <<>>)
          [] p = "Category Name" -> Get(data, "Category Name", <<>>)
          [] p = "Thumbnail" -> IF Truthy(Get(data, "Thumbnail", None))
                                THEN data["Thumbnail"] ELSE Absent
          [] p = "URL" -> IF Truthy(Get(data, "URL", None)) THEN data["URL"] ELSE Absent
          [] p = "Channel" -> Absent
          [] p = "cover" -> IF Truthy(Get(data, "Thumbnail", None))
                            THEN data["Thumbnail"] ELSE Absent]

update_video_entry(db, existing_video_id, data, env) ==
    LET got == get_existing_video_data(db, existing_video_id, env)
        update_required == DifferingKeys(got.data, data) # {}
        payload == UpdateVideoPayload(MergedData(got.data, data), data)
        k == PageIndex(existing_video_id)
    IN IF ~got.ok \/ ~update_required
       THEN [db |-> db, calls |-> got.calls]
       ELSE [db |-> IF env.w = "ok"
                    THEN [db EXCEPT ![k] = PatchPage(db[k], payload)] ELSE db,
             calls |-> got.calls \o
                       <<Call("update", "video", existing_video_id, payload, env.w)>>]

\* The POST without the relation.
CreateVideoPayloadNoRelation(data, channel_entry_id) ==
    [p \in VideoProps |->
        CASE p = "Name" -> Slice(data["Name"], TitleLimit)
          [] p = "Video Id" -> data["Video Id"]
          [] p = "Date" -> data["Date"]
          [] p = "Duration" -> Get(data, "Duration", <<>>)
          [] p = "Category Id" -> Get(data, "Category Id", <<>>)
          [] p = "Category Name" -> Get(data, "Category Name", <<>>)
          [] p = "Thumbnail" -> IF Truthy(Get(data, "Thumbnail", None))
                                THEN data["Thumbnail"] ELSE Absent
          [] p = "URL" -> IF Truthy(Get(data, "URL", None)) THEN data["URL"] ELSE Absent
          [] p = "Channel" -> Absent
          [] p = "cover" -> IF Truthy(Get(data, "Thumbnail", None))
                            THEN data["Thumbnail"] ELSE Absent]

\* The properties and cover of the POST of add_data_to_notion.
CreateVideoPayload(data, channel_entry_id) ==
    [p \in VideoProps |->
        CASE p = "Name" -> Slice(data["Name"], TitleLimit)
          [] p = "Video Id" -> data["Video Id"]
          [] p = "Date" -> data["Date"]
          [] p = "Duration" -> Get(data, "Duration", <<>>)
          [] p = "Category Id" -> Get(data, "Category Id", <<>>)
          [] p = "Category Name" -> Get(data, "Category Name", <<>>)
          [] p = "Thumbnail" -> IF Truthy(Get(data, "Thumbnail", None))
                                THEN data["Thumbnail"] ELSE Absent
          [] p = "URL" -> IF Truthy(Get(data, "URL", None)) THEN data["URL"] ELSE Absent
          [] p = "Channel" -> IF Truthy(channel_entry_id) THEN channel_entry_id ELSE Absent
          [] p = "cover" -> IF Truthy(Get(data, "Thumbnail", None))
                            THEN data["Thumbnail"] ELSE Absent]

add_data_to_notion(db, data, channel_entry_id, env) ==
    LET found == check_if_video_exists(db, data["Video Id"], env)
        payload == CreateVideoPayload(data, channel_entry_id)
        new_id == VideoPageId(Len(db) + 1)
    IN IF Truthy(found.ret)
       THEN LET upd == update_video_entry(db, found.ret, data, env)
            IN [db |-> upd.db, calls |-> found.calls \o upd.calls]
       ELSE IF env.w = "ok"
            THEN [db |-> Append(db, NewPage(VideoProps, payload)),
                  calls |-> found.calls \o
                            <<Call("create", "video", new_id, payload, env.w)>>]
            ELSE [db |-> db,
                  calls |-> found.calls \o
                            <<Call("create", "video", None, payload, env.w)>>]

(***************************************************************************)
(* The normalizer.  A raw duration is a whole number of seconds, or -1     *)
(* for a string pd.to_timedelta rejects; a raw timestamp is a number of    *)
(* minutes, or -1 for a string strptime rejects.  Rendered text keeps the  *)
(* numbers and stands a negative token for each literal.                   *)
(***************************************************************************)
WordHours == <<-20>>
WordMins == <<-21>>
WordSecs == <<-22>>
ZeroDuration == <<0, -23>>
UnknownDuration == <<-24>>

ComponentMinutesTotal(t) == t \div 60

\* Timedelta.components: hours is the hours within the day, days are apart.
ComponentHours(t) == (t \div 3600) % 24
ComponentMinutes(t) == (t \div 60) % 60
ComponentSeconds(t) == t % 60

convert_duration(duration) ==
    IF duration < 0
    THEN UnknownDuration
    ELSE LET hours == ComponentHours(duration)
             minutes == ComponentMinutes(duration)
             seconds == ComponentSeconds(duration)
             duration_str ==
                 (IF hours > 0 THEN <<hours>> \o WordHours ELSE <<>>)
                 \o (IF minutes > 0 THEN <<minutes>> \o WordMins ELSE <<>>)
                 \o (IF seconds > 0 THEN <<seconds>> \o WordSecs ELSE <<>>)
         IN IF duration_str # <<>> THEN duration_str ELSE ZeroDuration

\* The timestamp rendered in Asia/Kolkata as %Y-%m-%dT%H:%M:%S.000Z; the
\* wall clock's time, rendered alike, when the timestamp does not parse.
parse_and_format_published_date(published_at, now) ==
    IF published_at >= 0 THEN <<-30, published_at>> ELSE <<-30, now>>

ResolutionsLowestFirst == <<"default", "medium", "high", "standard", "maxres">>

Resolutions == <<"maxres", "standard", "high", "medium", "default">>

\* thumbnails.get('maxres', thumbnails.get('standard', ...)): the first
\* resolution present, in the order of Resolutions.
get_thumbnail_url(thumbnails) ==
    LET present == SelectSeq(Resolutions, LAMBDA r : r \in DOMAIN thumbnails)
    IN IF present # <<>> THEN thumbnails[present[1]] ELSE None

\* f"https://www.youtube.com/watch?v={item['id']}"
WatchUrl(id) == <<-31>> \o id

\* f"https://www.youtube.com/{channel_custom_url}"
ChannelUrl(custom) == <<-32>> \o custom

\* channels().list: the custom URL and the logo, both None when the call
\* raises or finds nothing.
get_channel_details(channel, out) ==
    IF out = "ok"
    THEN [custom |-> IF Truthy(channel.customUrl) THEN ChannelUrl(channel.customUrl) ELSE None,
          logo |-> LET t == channel.thumbnails
                       present == SelectSeq(<<"high", "medium", "default">>,
                                            LAMBDA r : r \in DOMAIN t)
                   IN IF present # <<>> THEN t[present[1]] ELSE None]
    ELSE [custom |-> None, logo |-> None]

\* videoCategories().list: the category's title, None when the call raises
\* or finds nothing.
get_category_name(category_title, out) == IF out = "ok" THEN category_title ELSE None

VideoDataKeys == {"Name", "Video Id", "Date", "Channel", "Channel Id", "Duration",
                  "Thumbnail", "Category Id", "URL", "Channel Custom URL",
                  "Channel Logo URL", "Category Name"}

\* The dict get_video_stats appends for one item of the response.
video_data_of(item, channel, category_title, chan_out, cat_out, now) ==
    LET channel_data == get_channel_details(channel, chan_out)
        category_name == get_category_name(category_title, cat_out)
    IN [k \in VideoDataKeys |->
          CASE k = "Name" -> item.title
            [] k = "Video Id" -> item.id
            [] k = "Date" -> parse_and_format_published_date(item.publishedAt, now)
            [] k = "Channel" -> item.channelTitle
            [] k = "Channel Id" -> item.channelId
            [] k = "Duration" -> convert_duration(item.duration)
            [] k = "Thumbnail" -> get_thumbnail_url(item.thumbnails)
            [] k = "Category Id" -> item.categoryId
            [] k = "URL" -> WatchUrl(item.id)
            [] k = "Channel Custom URL" -> channel_data.custom
            [] k = "Channel Logo URL" -> channel_data.logo
            [] k = "Category Name" ->
                 IF Truthy(category_name) THEN category_name ELSE None]

(***************************************************************************)
(* The catalog the bounded runs draw from.  Two video ids and two channel  *)
(* ids are a prefix of one another; one video and one channel carry a      *)
(* title one code unit longer than TitleLimit; id <<9>> is not in the      *)
(* catalog.  ver is the state of the catalog at the time of the fetch.     *)
(***************************************************************************)
NumVersions == 2

LongText == [j \in 1..(TitleLimit + 1) |-> 5]

VidAbc == <<1>>
VidAbc123 == <<1, 2>>
VidLong == <<3>>
VidGone == <<9>>

ChanA == <<7>>
ChanA8 == <<7, 8>>

InCatalog(v) == v # VidGone

RawVideo(v, ver) ==
    CASE v = VidAbc ->
           [id |-> v, title |-> <<10 + ver>>, publishedAt |-> 100,
            channelTitle |-> <<20 + ver>>, channelId |-> ChanA, duration |-> 3930,
            thumbnails |-> [r \in {"high", "medium"} |-> <<50, Len(r)>>],
            categoryId |-> <<30>>]
      [] v = VidAbc123 ->
           [id |-> v, title |-> <<13>>, publishedAt |-> 200,
            channelTitle |-> <<20 + ver>>, channelId |-> ChanA, duration |-> 0,
            thumbnails |-> [r \in {} |-> <<>>],
            categoryId |-> <<32>>]
      [] v = VidLong ->
           [id |-> v, title |-> LongText, publishedAt |-> 300,
            channelTitle |-> LongText, channelId |-> ChanA8, duration |-> -1,
            thumbnails |-> [r \in {"default"} |-> <<52>>],
            categoryId |-> <<30>>]
      [] OTHER ->
           [id |-> v, title |-> <<14>> \o v, publishedAt |-> 400,
            channelTitle |-> <<20 + ver>>, channelId |-> ChanA, duration |-> 90061,
            thumbnails |-> [r \in {"maxres"} |-> <<53>>],
            categoryId |-> <<30>>]

RawChannel(c) ==
    IF c = ChanA
    THEN [customUrl |-> <<40>>, thumbnails |-> [r \in {"medium", "default"} |-> <<41, Len(r)>>]]
    ELSE [customUrl |-> None, thumbnails |-> [r \in {} |-> <<>>]]

\* The title of a category, None for a category the catalog does not list.
CategoryTitle(category_id) == IF category_id = <<30>> THEN <<31>> ELSE None

\* The record of video v as get_video_stats builds it when every call succeeds.
Normalized(v, ver) ==
    LET item == RawVideo(v, ver)
    IN video_data_of(item, RawChannel(item.channelId), CategoryTitle(item.categoryId),
                     "ok", "ok", 0)

(***************************************************************************)
(* What the user supplies: the input option, then a file path (csv) or a   *)
(* line of comma-separated ids (manual).  The line is the sequence of its  *)
(* fields, each already stripped (Blank for a field of spaces, the empty   *)
(* line is one Blank field); the file is missing, unreadable, or a table   *)
(* with or without a 'Video Id' column whose cells are ids (text) or NaN.  *)
(***************************************************************************)
Blank == <<>>
NaN == <<-3>>

NoFile == [state |-> "none", has_column |-> FALSE, cells |-> <<>>]

UserInput(option, file_path, file, fields) ==
    [option |-> option, file_path |-> file_path, file |-> file, fields |-> fields]

NoInput == UserInput("none", None, NoFile, <<>>)

ManualIdsUnfiltered(fields) == fields

\* [vid.strip() for vid in user_input.split(',') if vid.strip()]
ManualIds(fields) == SelectSeq(fields, LAMBDA f : f # Blank)

\* df['Video Id'].dropna().astype(str).tolist()
CsvIds(cells) == SelectSeq(cells, LAMBDA c : c # NaN)

\* return None, after logger.error(message)
Refused(message) == [none |-> TRUE, ids |-> <<>>, errors |-> <<message>>]
Supplied(ids) == [none |-> FALSE, ids |-> ids, errors |-> <<>>]

\* get_video_data up to its call of get_video_stats: the identifiers, or
\* None with the error it logged.
get_video_data_ids(inp) ==
    IF inp.option = "csv"
    THEN IF ~Truthy(inp.file_path) THEN Refused("file path required")
         ELSE IF inp.file.state = "missing" THEN Refused("file not found")
         ELSE IF inp.file.state = "unreadable" THEN Refused("error reading csv")
         ELSE IF ~inp.file.has_column THEN Refused("no Video Id column")
         ELSE IF CsvIds(inp.file.cells) = <<>> THEN Refused("no ids in csv")
         ELSE Supplied(CsvIds(inp.file.cells))
    ELSE IF inp.option = "manual"
    THEN IF inp.fields = <<Blank>> THEN Refused("no ids provided")
         ELSE IF ManualIds(inp.fields) = <<>> THEN Refused("no ids in input")
         ELSE Supplied(ManualIds(inp.fields))
    ELSE Refused("invalid input option")

(***************************************************************************)
(* What the properties read off a store and off a sequence of calls.       *)
(***************************************************************************)
\* The number of calls of the given kinds on the given database.
Count(calls, ops, db) ==
    Cardinality({c \in 1..Len(calls) : calls[c].op \in ops /\ calls[c].db = db})

HasVideo(db, video_id) == \E j \in 1..Len(db) : db[j]["Video Id"] = video_id
HasChannel(db, channel_id) == \E j \in 1..Len(db) : db[j]["Channel Id"] = channel_id

(***************************************************************************)
(* State.                                                                  *)
(***************************************************************************)
VARIABLES
    channel_db,        \* the pages of the channel database
    video_db,          \* the pages of the video database
    made,              \* for each video page main created: its page id and owner id
    pc,                \* where the program is
    catalog_ver,       \* the state of the catalog during this run
    video_ids,         \* the identifiers the input supplied
    i,                 \* get_video_stats: the offset of the next batch
    fetches,           \* get_video_stats: the videos().list calls made, in order
    all_data,          \* get_video_stats: the records gathered (main's video_data)
    k,                 \* main: the number of items the loop is done with
    channel_entry_id,  \* main: what get_or_create_channel_entry returned for the item
    success_count,
    error_count,
    log,               \* the store calls of this run, in order
    runs,              \* the number of runs started
    at_start,          \* the two databases as this run found them
    faults,            \* the failures injected so far
    prev,              \* direct calls: the call before the last one
    last,              \* direct calls: the last call
    nOps,              \* direct calls: how many were made
    input,             \* main: what the user supplied to this run
    errors,            \* the errors get_video_data and main logged in this run
    processed,         \* main: the Video Ids of the items the loop took up, in order
    before_item        \* main: the store, and the length of the log, as the loop
                       \* took up the item it is on or was on last

vars == <<channel_db, video_db, made, pc, catalog_ver, video_ids, i, fetches,
          all_data, k, channel_entry_id, success_count, error_count, log, runs,
          at_start, faults, prev, last, nOps, input, errors, processed,
          before_item>>

store_vars == <<channel_db, video_db>>
run_vars == <<made, catalog_ver, video_ids, i, fetches, all_data, k,
              channel_entry_id, success_count, error_count, log, runs, at_start, faults>>

NoStore == [channel_db |-> <<>>, video_db |-> <<>>]
op_vars == <<prev, last, nOps>>
in_vars == <<input, errors, processed, before_item>>

\* No item taken up yet.
NoItem == [channel_db |-> <<>>, video_db |-> <<>>, calls |-> 0]

Envs == [q : Outcomes, g : Outcomes, w : Outcomes, order : {"asc", "desc"}]

AllOk(env) == env.q = "ok" /\ env.g = "ok" /\ env.w = "ok"

\* env names no outcome for a call that was not made, and no order for a
\* query with fewer than two matches: each behaviour of a call is drawn once.
Canonical(env, calls, matches) ==
    /\ env.g # "ok" => \E c \in 1..Len(calls) : calls[c].op = "get"
    /\ env.w # "ok" => \E c \in 1..Len(calls) : calls[c].op \in {"create", "update"}
    /\ env.order # "asc" => Len(matches) > 1

(***************************************************************************)
(* Direct calls of the two store operations, in any order, on the store    *)
(* the earlier calls left.                                                 *)
(***************************************************************************)
MaxOps == 2

NoOp == [fn |-> "none", data |-> NoPayload, owner |-> None, args |-> <<>>,
         allok |-> FALSE, calls |-> <<>>, ret |-> None,
         channel_before |-> <<>>, video_before |-> <<>>]

MediaInputs == {Normalized(v, ver) : v \in {VidAbc, VidAbc123, VidLong}, ver \in 1..NumVersions}

InitOps ==
    /\ channel_db = <<>> /\ video_db = <<>> /\ made = {}
    /\ pc = "ops" /\ catalog_ver = 1 /\ video_ids = <<>> /\ i = 0
    /\ fetches = <<>> /\ all_data = <<>> /\ k = 0 /\ channel_entry_id = None
    /\ success_count = 0 /\ error_count = 0 /\ log = <<>> /\ runs = 0
    /\ at_start = NoStore /\ faults = 0
    /\ prev = NoOp /\ last = NoOp /\ nOps = 0
    /\ input = NoInput /\ errors = <<>> /\ processed = <<>> /\ before_item = NoItem

\* The logo the catalog gives for the channel of d, or the one it gives
\* once the channel has changed its picture.
LogoInputs(d) == {d["Channel Logo URL"], <<42>>}

CallResolve ==
    /\ pc = "ops" /\ nOps < MaxOps
    /\ \E d \in MediaInputs : \E logo \in LogoInputs(d), env \in Envs :
         LET r == get_or_create_channel_entry(channel_db, d["Channel"], d["Channel Id"],
                    logo, d["Channel Custom URL"], env)
         IN /\ Canonical(env, r.calls,
                         Query(channel_db, "Channel Id", ChannelFilterOp, d["Channel Id"], "asc"))
            /\ channel_db' = r.db
            /\ last' = [fn |-> "resolve", data |-> NoPayload, owner |-> None,
                        args |-> <<d["Channel"], d["Channel Id"],
                                   logo, d["Channel Custom URL"]>>,
                        allok |-> AllOk(env), calls |-> r.calls, ret |-> r.ret,
                        channel_before |-> channel_db, video_before |-> video_db]
    /\ prev' = last /\ nOps' = nOps + 1
    /\ UNCHANGED <<video_db, pc, run_vars, in_vars>>

CallUpsert ==
    /\ pc = "ops" /\ nOps < MaxOps
    /\ \E d \in MediaInputs, env \in Envs,
          owner \in {None} \cup {ChannelPageId(j) : j \in 1..Len(channel_db)} :
         LET r == add_data_to_notion(video_db, d, owner, env)
         IN /\ Canonical(env, r.calls,
                         Query(video_db, "Video Id", VideoFilterOp, d["Video Id"], "asc"))
            /\ video_db' = r.db
            /\ last' = [fn |-> "upsert", data |-> d, owner |-> owner, args |-> <<>>,
                        allok |-> AllOk(env), calls |-> r.calls, ret |-> None,
                        channel_before |-> channel_db, video_before |-> video_db]
    /\ prev' = last /\ nOps' = nOps + 1
    /\ UNCHANGED <<channel_db, pc, run_vars, in_vars>>

NextOps == CallResolve \/ CallUpsert

SpecOps == InitOps /\ [][NextOps]_vars

(***************************************************************************)
(* update_video_entry on its own: a store with one media record and its    *)
(* owner, as a run that created them left it, and one call with a record   *)
(* of the same Video Id of which any of the fields the store reads back,   *)
(* but the name, may be missing.                                           *)
(***************************************************************************)
DroppableKeys == ExistingVideoKeys \ {"Name"}

Restrict(d, keys) == [key \in keys |-> d[key]]

\* The two databases after a run that created the record d and its owner.
StoreWith(d) ==
    [channel_db |-> <<NewPage(ChannelProps,
                              ChannelPayload(d["Channel"], d["Channel Id"],
                                             d["Channel Logo URL"], d["Channel Custom URL"]))>>,
     video_db |-> <<NewPage(VideoProps, CreateVideoPayload(d, ChannelPageId(1)))>>]

InitDiff ==
    /\ \E d \in MediaInputs :
         channel_db = StoreWith(d).channel_db /\ video_db = StoreWith(d).video_db
    /\ made = {}
    /\ pc = "diff" /\ catalog_ver = 1 /\ video_ids = <<>> /\ i = 0
    /\ fetches = <<>> /\ all_data = <<>> /\ k = 0 /\ channel_entry_id = None
    /\ success_count = 0 /\ error_count = 0 /\ log = <<>> /\ runs = 0
    /\ at_start = NoStore /\ faults = 0
    /\ prev = NoOp /\ last = NoOp /\ nOps = 0
    /\ input = NoInput /\ errors = <<>> /\ processed = <<>> /\ before_item = NoItem

CallUpdate ==
    /\ pc = "diff" /\ nOps = 0
    /\ \E d \in MediaInputs, dropped \in SUBSET DroppableKeys, env \in Envs :
         LET data == Restrict(d, VideoDataKeys \ dropped)
             r == update_video_entry(video_db, VideoPageId(1), data, env)
         IN /\ d["Video Id"] = video_db[1]["Video Id"]
            /\ env.q = "ok" /\ Canonical(env, r.calls, <<>>)
            /\ video_db' = r.db
            /\ last' = [fn |-> "update", data |-> data, owner |-> None, args |-> <<>>,
                        allok |-> AllOk(env), calls |-> r.calls, ret |-> None,
                        channel_before |-> channel_db, video_before |-> video_db]
    /\ prev' = last /\ nOps' = nOps + 1
    /\ UNCHANGED <<channel_db, pc, run_vars, in_vars>>

NextDiff == CallUpdate

SpecDiff == InitDiff /\ [][NextDiff]_vars

(***************************************************************************)
(* The normalizer's functions on their own: the input is drawn at the      *)
(* start (prev), one call applies the function to it (last).               *)
(***************************************************************************)
MaxDays == 2

\* snippet.thumbnails with any of the five resolutions, each with its own URL.
ThumbnailInputs ==
    {[r \in present |-> <<50, Len(r)>>] :
        present \in SUBSET {Resolutions[j] : j \in 1..Len(Resolutions)}}

\* contentDetails.duration: a string pd.to_timedelta rejects, or a duration
\* of up to MaxDays days and some hours, minutes and seconds.
DurationInputs ==
    {-1} \cup {86400 * d + 3600 * h + 60 * m + s_ :
                 d \in 0..MaxDays, h \in {0, 1, 23}, m \in {0, 5, 59}, s_ \in {0, 30, 59}}

PureCall(fn, arg, ret) == [fn |-> fn, arg |-> arg, ret |-> ret]

InitPure ==
    /\ channel_db = <<>> /\ video_db = <<>> /\ made = {}
    /\ pc = "pure" /\ catalog_ver = 1 /\ video_ids = <<>> /\ i = 0
    /\ fetches = <<>> /\ all_data = <<>> /\ k = 0 /\ channel_entry_id = None
    /\ success_count = 0 /\ error_count = 0 /\ log = <<>> /\ runs = 0
    /\ at_start = NoStore /\ faults = 0
    /\ last = NoOp /\ nOps = 0
    /\ input = NoInput /\ errors = <<>> /\ processed = <<>> /\ before_item = NoItem
    /\ \/ \E t \in ThumbnailInputs : prev = PureCall("get_thumbnail_url", t, None)
       \/ \E d \in DurationInputs : prev = PureCall("convert_duration", d, None)

CallThumbnail ==
    /\ pc = "pure" /\ nOps = 0 /\ prev.fn = "get_thumbnail_url"
    /\ last' = PureCall(prev.fn, prev.arg, get_thumbnail_url(prev.arg))
    /\ nOps' = 1
    /\ UNCHANGED <<store_vars, prev, pc, run_vars, in_vars>>

CallDuration ==
    /\ pc = "pure" /\ nOps = 0 /\ prev.fn = "convert_duration"
    /\ last' = PureCall(prev.fn, prev.arg, convert_duration(prev.arg))
    /\ nOps' = 1
    /\ UNCHANGED <<store_vars, prev, pc, run_vars, in_vars>>

NextPure == CallThumbnail \/ CallDuration

SpecPure == InitPure /\ [][NextPure]_vars

(***************************************************************************)
(* get_video_stats: one action per batch of the loop.  benv gives the      *)
(* outcome of videos().list for the batch, the items of the response       *)
(* whose processing raises (bad), and the items whose channel or category  *)
(* lookup fails.  Only the ids of FlakyIds are subject to these             *)
(* per-item failures.                                                      *)
(***************************************************************************)
FlakyIds == {VidAbc}

Min(a, b) == IF a <= b THEN a ELSE b

BatchOffByOne(ids, offset) ==
    SubSeq(ids, offset + 1, Min(offset + YOUTUBE_BATCH_SIZE - 1, Len(ids)))

\* video_ids[i:i + YOUTUBE_BATCH_SIZE]
Batch(ids, offset) ==
    SubSeq(ids, offset + 1, Min(offset + YOUTUBE_BATCH_SIZE, Len(ids)))

NextOffsetRetry(offset, out) == IF out = "ok" THEN offset + YOUTUBE_BATCH_SIZE ELSE offset

\* range(0, len(video_ids), YOUTUBE_BATCH_SIZE): the offset after a batch,
\* whatever became of it (both except branches continue).
NextOffset(offset, out) == offset + YOUTUBE_BATCH_SIZE

\* The failures a run may inject: store calls that fail and items whose
\* processing or lookups fail.
MaxFaults == 1

BatchFaults(benv) ==
    Cardinality(benv.bad) + Cardinality(benv.chan_fail) + Cardinality(benv.cat_fail)

BatchEnvs(batch) ==
    LET flaky == {batch[j] : j \in 1..Len(batch)} \cap FlakyIds
    IN {benv \in [out : {"ok", "raised"}, bad : SUBSET flaky,
                  chan_fail : SUBSET flaky, cat_fail : SUBSET flaky] :
          /\ benv.out # "ok" => benv.bad = {} /\ benv.chan_fail = {} /\ benv.cat_fail = {}
          /\ benv.bad \cap (benv.chan_fail \cup benv.cat_fail) = {}}

\* response['items']: the videos of the batch the catalog knows, in order.
ResponseItems(batch) == SelectSeq(batch, InCatalog)

\* What one batch appends to all_data.
BatchData(batch, ver, benv) ==
    IF benv.out # "ok"
    THEN <<>>
    ELSE LET good == SelectSeq(ResponseItems(batch), LAMBDA v : v \notin benv.bad)
         IN [j \in 1..Len(good) |->
               LET item == RawVideo(good[j], ver)
               IN video_data_of(item, RawChannel(item.channelId),
                                CategoryTitle(item.categoryId),
                                IF good[j] \in benv.chan_fail THEN "raised" ELSE "ok",
                                IF good[j] \in benv.cat_fail THEN "raised" ELSE "ok", 0)]

GetVideoStatsBatch ==
    /\ pc = "fetch" /\ i < Len(video_ids)
    /\ LET batch == Batch(video_ids, i)
       IN \E benv \in BatchEnvs(batch) :
            /\ faults + BatchFaults(benv) <= MaxFaults
            /\ faults' = faults + BatchFaults(benv)
            /\ fetches' = Append(fetches, [offset |-> i, batch |-> batch, out |-> benv.out,
                                           bad |-> benv.bad,
                                           lookups_failed |-> benv.chan_fail \cup benv.cat_fail])
            /\ all_data' = all_data \o BatchData(batch, catalog_ver, benv)
            /\ i' = NextOffset(i, benv.out)
    /\ UNCHANGED <<store_vars, op_vars, in_vars, made, pc, catalog_ver, video_ids, k,
                   channel_entry_id, success_count, error_count, log, runs, at_start>>

GetVideoStatsReturn ==
    /\ pc = "fetch" /\ i >= Len(video_ids)
    /\ pc' = "fetched"
    /\ UNCHANGED <<store_vars, op_vars, in_vars, made, catalog_ver, video_ids, i, fetches,
                   all_data, k, channel_entry_id, success_count, error_count, log, runs,
                   at_start, faults>>

\* get_video_stats on its own, on the ids <<1>>, ..., <<n>>.
MaxIds == 120

InitFetch ==
    /\ channel_db = <<>> /\ video_db = <<>> /\ made = {}
    /\ pc = "fetch" /\ catalog_ver = 1
    /\ \E n \in 0..MaxIds : video_ids = [j \in 1..n |-> <<j>>]
    /\ i = 0 /\ fetches = <<>> /\ all_data = <<>> /\ k = 0 /\ channel_entry_id = None
    /\ success_count = 0 /\ error_count = 0 /\ log = <<>> /\ runs = 0
    /\ at_start = NoStore /\ faults = 0
    /\ prev = NoOp /\ last = NoOp /\ nOps = 0
    /\ input = NoInput /\ errors = <<>> /\ processed = <<>> /\ before_item = NoItem

NextFetch == GetVideoStatsBatch \/ GetVideoStatsReturn

SpecFetch == InitFetch /\ [][NextFetch]_vars

(***************************************************************************)
(* main: runs of the whole program, one after another on the same store.   *)
(***************************************************************************)
MaxRuns == 2
MaxRunIds == 2

RunIds == {VidAbc, VidAbc123, VidLong, VidGone}

\* What the input may supply: up to MaxRunIds different ids, or none.
RunInputs ==
    {ids \in UNION {[1..n -> RunIds] : n \in 0..MaxRunIds} :
        \A a, b \in 1..Len(ids) : ids[a] = ids[b] => a = b}

Init ==
    /\ channel_db = <<>> /\ video_db = <<>> /\ made = {}
    /\ pc = "idle" /\ catalog_ver = 1 /\ video_ids = <<>> /\ i = 0
    /\ fetches = <<>> /\ all_data = <<>> /\ k = 0 /\ channel_entry_id = None
    /\ success_count = 0 /\ error_count = 0 /\ log = <<>> /\ runs = 0
    /\ at_start = NoStore /\ faults = 0
    /\ prev = NoOp /\ last = NoOp /\ nOps = 0
    /\ input = NoInput /\ errors = <<>> /\ processed = <<>> /\ before_item = NoItem

CsvPath == <<60>>

CsvFile(state, has_column, cells) == [state |-> state, has_column |-> has_column, cells |-> cells]

\* What the user may type: a line of ids, an empty line, a line of blank
\* fields, a line with a blank field among ids; no path, the path of a file
\* that is missing, unreadable, without the column, without rows, with
\* empty cells only, or with ids; another option than csv or manual.
UserInputs ==
    {UserInput("manual", None, NoFile, ids) : ids \in RunInputs \ {<<>>}}
    \cup {UserInput("manual", None, NoFile, f) :
             f \in {<<Blank>>, <<Blank, Blank>>, <<Blank, VidAbc>>}}
    \cup {UserInput("csv", <<>>, NoFile, <<>>)}
    \cup {UserInput("csv", CsvPath, f, <<>>) :
             f \in {CsvFile("missing", FALSE, <<>>), CsvFile("unreadable", FALSE, <<>>),
                    CsvFile("ok", FALSE, <<VidAbc>>), CsvFile("ok", TRUE, <<>>),
                    CsvFile("ok", TRUE, <<NaN>>), CsvFile("ok", TRUE, <<NaN, VidAbc123>>)}}
    \cup {UserInput("other", None, NoFile, <<>>)}

\* main up to get_video_data's call of get_video_stats: with no identifiers
\* get_video_data returns None and main logs that there is nothing to
\* process and returns.
StartRun ==
    /\ pc \in {"idle", "done", "exit"} /\ runs < MaxRuns
    /\ \E inp \in UserInputs, ver \in 1..NumVersions :
         LET got == get_video_data_ids(inp)
         IN /\ input' = inp /\ catalog_ver' = ver
            /\ IF got.none
               THEN /\ video_ids' = <<>> /\ pc' = "exit"
                    /\ errors' = got.errors \o <<"no video data to process">>
               ELSE /\ video_ids' = got.ids /\ pc' = "fetch"
                    /\ errors' = got.errors
    /\ runs' = runs + 1
    /\ processed' = <<>> /\ before_item' = NoItem
    /\ at_start' = [channel_db |-> channel_db, video_db |-> video_db]
    /\ i' = 0 /\ fetches' = <<>> /\ all_data' = <<>> /\ k' = 0
    /\ channel_entry_id' = None /\ success_count' = 0 /\ error_count' = 0
    /\ log' = <<>>
    /\ UNCHANGED <<store_vars, op_vars, made, faults>>

\* get_video_data after get_video_stats, and main's test of its result.
MainAfterFetch ==
    /\ pc = "fetched"
    /\ IF all_data = <<>>
       THEN pc' = "exit" /\ errors' = errors \o <<"no video data to process">>
       ELSE pc' = "resolve" /\ errors' = errors
    /\ UNCHANGED <<store_vars, op_vars, run_vars, input, processed, before_item>>

StoreFaults(env) ==
    Cardinality({f \in {"q", "g", "w"} : env[f] # "ok"})

\* A counter that an item leaves as it was.
NoIncrement(count) == count

\* success_count += 1, error_count += 1
Increment(count) == count + 1

BreakAfter(done, total) == total

\* continue: the loop goes on with the next item.
ContinueAfter(done, total) == done + 1

\* The store and the log as the loop takes up an item.
ItemStart == [channel_db |-> channel_db, video_db |-> video_db, calls |-> Len(log)]

\* The loop body of main up to the test of channel_entry_id.
ResolveOwner ==
    /\ pc = "resolve" /\ k < Len(all_data)
    /\ LET video_info == all_data[k + 1]
       IN \E env \in Envs :
            LET r == get_or_create_channel_entry(channel_db, video_info["Channel"],
                       video_info["Channel Id"], video_info["Channel Logo URL"],
                       video_info["Channel Custom URL"], env)
            IN /\ Canonical(env, r.calls, Query(channel_db, "Channel Id", ChannelFilterOp,
                                                video_info["Channel Id"], "asc"))
               /\ faults + StoreFaults(env) <= MaxFaults
               /\ faults' = faults + StoreFaults(env)
               /\ channel_db' = r.db
               /\ log' = log \o r.calls
               /\ channel_entry_id' = r.ret
               /\ IF Truthy(r.ret)
                  THEN pc' = "upsert" /\ UNCHANGED <<k, error_count>>
                  ELSE /\ pc' = "resolve" /\ k' = ContinueAfter(k, Len(all_data))
                       /\ error_count' = Increment(error_count)
               /\ processed' = Append(processed, video_info["Video Id"])
               /\ before_item' = ItemStart
    /\ UNCHANGED <<video_db, op_vars, made, catalog_ver, video_ids, i, fetches, all_data,
                   success_count, runs, at_start, input, errors>>

\* The page ids of the pages a sequence of calls created.
Created(calls) ==
    {calls[c].key : c \in {c \in 1..Len(calls) : calls[c].op = "create" /\ calls[c].res = "ok"}}

\* The rest of the loop body: add_data_to_notion, then success_count += 1.
UpsertVideo ==
    /\ pc = "upsert"
    /\ LET video_info == all_data[k + 1]
       IN \E env \in Envs :
            LET r == add_data_to_notion(video_db, video_info, channel_entry_id, env)
            IN /\ Canonical(env, r.calls, Query(video_db, "Video Id", VideoFilterOp,
                                                video_info["Video Id"], "asc"))
               /\ faults + StoreFaults(env) <= MaxFaults
               /\ faults' = faults + StoreFaults(env)
               /\ video_db' = r.db
               /\ log' = log \o r.calls
               /\ made' = made \cup {[page |-> id, owner |-> video_info["Channel Id"]] :
                                       id \in Created(r.calls)}
    /\ success_count' = Increment(success_count)
    /\ k' = k + 1
    /\ pc' = "resolve"
    /\ UNCHANGED <<channel_db, op_vars, in_vars, catalog_ver, video_ids, i, fetches,
                   all_data, channel_entry_id, error_count, runs, at_start>>

\* The except branch of the loop: an exception that leaves the body, raised
\* as the body starts on an item or between get_or_create_channel_entry and
\* add_data_to_notion, is logged and counted, and the loop continues.
ItemRaises ==
    /\ pc \in {"resolve", "upsert"} /\ k < Len(all_data)
    /\ faults + 1 <= MaxFaults
    /\ faults' = faults + 1
    /\ error_count' = Increment(error_count)
    /\ k' = ContinueAfter(k, Len(all_data))
    /\ pc' = "resolve"
    /\ processed' = IF pc = "resolve"
                    THEN Append(processed, all_data[k + 1]["Video Id"]) ELSE processed
    /\ before_item' = IF pc = "resolve" THEN ItemStart ELSE before_item
    /\ errors' = Append(errors, "error processing video")
    /\ UNCHANGED <<store_vars, op_vars, made, catalog_ver, video_ids, i, fetches, all_data,
                   channel_entry_id, success_count, log, runs, at_start, input>>

\* The summary after the loop.
Summary ==
    /\ pc = "resolve" /\ k = Len(all_data)
    /\ pc' = "done"
    /\ UNCHANGED <<store_vars, op_vars, run_vars, in_vars>>

\* One step of a run that has started.
RunStep ==
    \/ GetVideoStatsBatch
    \/ GetVideoStatsReturn
    \/ MainAfterFetch
    \/ ResolveOwner
    \/ UpsertVideo
    \/ ItemRaises
    \/ Summary

Next == StartRun \/ RunStep

Spec == Init /\ [][Next]_vars

\* One run, on an empty store or on the store an earlier run left when it
\* created the record of one video and its owner.
InitLive ==
    /\ \E store \in {NoStore, StoreWith(Normalized(VidAbc, 1))} :
         channel_db = store.channel_db /\ video_db = store.video_db
    /\ made = {}
    /\ pc = "idle" /\ catalog_ver = 1 /\ video_ids = <<>> /\ i = 0
    /\ fetches = <<>> /\ all_data = <<>> /\ k = 0 /\ channel_entry_id = None
    /\ success_count = 0 /\ error_count = 0 /\ log = <<>> /\ runs = 0
    /\ at_start = NoStore /\ faults = 0
    /\ prev = NoOp /\ last = NoOp /\ nOps = 0
    /\ input = NoInput /\ errors = <<>> /\ processed = <<>> /\ before_item = NoItem

StartOnlyRun == runs = 0 /\ StartRun

NextLive == StartOnlyRun \/ RunStep

\* The program is sequential and every remote call returns or raises: a run
\* that can take a step takes one.
SpecLive == InitLive /\ [][NextLive]_vars /\ WF_vars(RunStep)

(***************************************************************************)
(* The loop of main on its own: get_video_stats has returned the records   *)
(* of one batch of ids, for any of which the channel lookup may have       *)
(* failed, and the loop is about to take up the first one.                 *)
(***************************************************************************)
LoopIds == {ids \in RunInputs : ids # <<>> /\ \A j \in 1..Len(ids) : InCatalog(ids[j])}

InitLoop ==
    /\ \E store \in {NoStore, StoreWith(Normalized(VidAbc, 1))}, ids \in LoopIds,
          ver \in 1..NumVersions :
         \E chan_fail \in SUBSET {ids[j] : j \in 1..Len(ids)} :
            /\ channel_db = store.channel_db /\ video_db = store.video_db
            /\ at_start = store
            /\ catalog_ver = ver /\ video_ids = ids
            /\ input = UserInput("manual", None, NoFile, ids)
            /\ fetches = <<[offset |-> 0, batch |-> Batch(ids, 0), out |-> "ok",
                            bad |-> {}, lookups_failed |-> chan_fail]>>
            /\ all_data = BatchData(Batch(ids, 0), ver,
                                    [out |-> "ok", bad |-> {}, chan_fail |-> chan_fail,
                                     cat_fail |-> {}])
    /\ i = NextOffset(0, "ok")
    /\ made = {} /\ pc = "resolve" /\ k = 0 /\ channel_entry_id = None
    /\ success_count = 0 /\ error_count = 0 /\ log = <<>> /\ runs = 1
    /\ faults = 0
    /\ prev = NoOp /\ last = NoOp /\ nOps = 0
    /\ errors = <<>> /\ processed = <<>> /\ before_item = NoItem

NextLoop == ResolveOwner \/ UpsertVideo \/ ItemRaises \/ Summary

SpecLoop == InitLoop /\ [][NextLoop]_vars

(***************************************************************************)
(* Properties of whole runs, under Spec.                                   *)
(***************************************************************************)
IsChannelRef(ref) ==
    /\ Len(ref) = 2 /\ ref = ChannelPageId(ref[2]) /\ ref[2] \in 1..Len(channel_db)

\* Every media page a run created relates to a channel page of its owner.
CreatedMediaRelated ==
    \A m \in made :
        LET rel == video_db[PageIndex(m.page)]["Channel"]
        IN /\ IsChannelRef(rel)
           /\ channel_db[PageIndex(rel)]["Channel Id"] = m.owner

\* An item whose owner resolution returned no ref: nothing is written to the
\* video database and the item counts as failed.
UnresolvedOwnerSkipped ==
    (pc = "resolve" /\ k < Len(all_data) /\ k' = k + 1 /\ log' # log) =>
        /\ ~Truthy(channel_entry_id')
        /\ video_db' = video_db /\ made' = made
        /\ error_count' = error_count + 1 /\ success_count' = success_count

\* C4: in every state of every run, whatever store calls fail, each media
\* page the run created carries a relation to a channel page whose Channel
\* Id is the media record's owner id; and an item whose owner resolution
\* returns no ref is not created and counts as failed (the loop moves past
\* an item at the resolution, having made its calls, only then, and only so).
C4_CreatedMediaAlwaysRelatedToOwner ==
    [](CreatedMediaRelated /\ (pc = "upsert" => Truthy(channel_entry_id)))
    /\ [][UnresolvedOwnerSkipped]_vars

\* A run created a media page, and the item the loop has just moved past was
\* skipped because its owner resolution returned no ref.
C4_Witness ==
    /\ made # {}
    /\ error_count > 0 /\ ~Truthy(channel_entry_id) /\ pc = "resolve" /\ k > 0

Writes(calls) == SelectSeq(calls, LAMBDA c : c.op \in {"create", "update"})

AllCallsOk ==
    /\ errors = <<>>
    /\ \A c \in 1..Len(log) : log[c].res = "ok"
    /\ \A c \in 1..Len(fetches) :
          fetches[c].out = "ok" /\ fetches[c].bad = {} /\ fetches[c].lookups_failed = {}

\* A finished run over one media id, the media record and its owner's record
\* both absent from the store at the start, every call succeeding.
OneNewVideoRun ==
    /\ pc = "done" /\ Len(video_ids) = 1 /\ InCatalog(video_ids[1])
    /\ ~HasVideo(at_start.video_db, video_ids[1])
    /\ ~HasChannel(at_start.channel_db, RawVideo(video_ids[1], catalog_ver).channelId)
    /\ AllCallsOk

\* C5: a run over one media id, the record and its owner both absent from
\* the store and every call succeeding, issues exactly one channel create,
\* then exactly one media create whose relation is the ref the channel
\* create returned, no update, and ends with succeeded = 1, failed = 0,
\* total = 1.
C5_EndToEndOneNewVideo ==
    OneNewVideoRun =>
        /\ Len(Writes(log)) = 2
        /\ Writes(log)[1].op = "create" /\ Writes(log)[1].db = "channel"
        /\ Writes(log)[2].op = "create" /\ Writes(log)[2].db = "video"
        /\ Writes(log)[2].payload["Channel"] = Writes(log)[1].key
        /\ Truthy(Writes(log)[1].key)
        /\ success_count = 1 /\ error_count = 0 /\ Len(all_data) = 1

C5_Witness == OneNewVideoRun /\ Len(video_db) > Len(at_start.video_db)

\* The step of the loop that made a media write which did not succeed.
FailedMediaWriteStep ==
    /\ pc = "upsert" /\ Len(log') > Len(log)
    /\ log'[Len(log')].db = "video"
    /\ log'[Len(log')].op \in {"create", "update"}
    /\ log'[Len(log')].res # "ok"

\* C10: when the media create or update of an item does not succeed (another
\* status than 200, or an exception), the item increments the failed count
\* and not the succeeded count.
C10_FailedWriteCountedAsFailure ==
    [][FailedMediaWriteStep =>
          error_count' = error_count + 1 /\ success_count' = success_count]_vars

\* The input of the current run supplies no identifier: an empty line or a
\* line of blank fields, no file path, a file that is missing, unreadable,
\* without the 'Video Id' column or without a filled cell in it, or an
\* option that is neither csv nor manual.
NoIdsSupplied ==
    /\ runs > 0
    /\ \/ /\ input.option = "manual"
          /\ \A j \in 1..Len(input.fields) : input.fields[j] = Blank
       \/ /\ input.option = "csv"
          /\ \/ input.file_path = <<>>
             \/ input.file.state # "ok"
             \/ ~input.file.has_column
             \/ \A j \in 1..Len(input.file.cells) : input.file.cells[j] = NaN
       \/ input.option \notin {"csv", "manual"}

\* C11: a run whose input supplies no identifier logs the error and ends
\* at once: no catalog call and no store call is made, and the store is as
\* the run found it.
C11_NoIdsNoRemoteCall ==
    NoIdsSupplied =>
        /\ pc = "exit"
        /\ errors # <<>>
        /\ fetches = <<>> /\ all_data = <<>> /\ log = <<>>
        /\ channel_db = at_start.channel_db /\ video_db = at_start.video_db

\* A second run on a store that holds records was given a CSV file whose
\* 'Video Id' cells are all empty, and ended.
C11_Witness ==
    /\ NoIdsSupplied /\ pc = "exit"
    /\ input.option = "csv" /\ input.file.cells = <<NaN>>
    /\ video_db # <<>> /\ channel_db # <<>>

\* C17: whatever store calls fail, the channel database holds at most one
\* page per Channel Id and the video database at most one page per Video Id.
C17_AtMostOneRecordPerIdentity ==
    /\ \A a, b \in 1..Len(channel_db) :
          channel_db[a]["Channel Id"] = channel_db[b]["Channel Id"] => a = b
    /\ \A a, b \in 1..Len(video_db) :
          video_db[a]["Video Id"] = video_db[b]["Video Id"] => a = b

\* The Video Ids of the items of all_data, in order.
FetchedIds == [j \in 1..Len(all_data) |-> all_data[j]["Video Id"]]

\* The items the loop has taken up are the first ones of all_data, each
\* once and in order; at the summary they are all of them, and each was
\* counted once.
ProcessedInOrder ==
    /\ pc \in {"resolve", "upsert", "done"} =>
          /\ processed = SubSeq(FetchedIds, 1, IF pc = "upsert" THEN k + 1 ELSE k)
          /\ success_count + error_count = k
    /\ pc = "done" => processed = FetchedIds

\* C18: an item that fails (an exception leaves the loop body, or the owner
\* resolution returns no ref) does not end the run: the loop takes up every
\* item of the fetch once, in order, and every run that has started reaches
\* its end.
C18_ItemFailureDoesNotAbort ==
    /\ []ProcessedInOrder
    /\ [](pc \in {"fetch", "fetched", "resolve", "upsert"} => <>(pc \in {"done", "exit"}))

\* A run over two items ended; an exception left the body on the first item
\* and the second one was written.
C18_Witness ==
    /\ pc = "done" /\ Len(all_data) = 2
    /\ errors = <<"error processing video">>
    /\ error_count = 1 /\ success_count = 1
    /\ \A c \in 1..Len(log) : log[c].db = "video" => log[c].key # all_data[1]["Video Id"]
    /\ \E c \in 1..Len(log) :
          /\ log[c].db = "video" /\ log[c].op = "create" /\ log[c].res = "ok"
          /\ log[c].payload["Video Id"] = all_data[2]["Video Id"]

\* No update of a media record sent so far in this run holds the relation.
NoUpdateSendsRelation ==
    \A c \in 1..Len(log) :
        (log[c].op = "update" /\ log[c].db = "video") => "Channel" \notin Sent(log[c].payload)

\* A step leaves the relation of every media record that exists as it is.
RelationsKept ==
    /\ Len(video_db') >= Len(video_db)
    /\ \A j \in 1..Len(video_db) : video_db'[j]["Channel"] = video_db[j]["Channel"]

\* C20: the relation of a media record is written by its create only: no
\* update of update_video_entry holds the Channel property, and no step of
\* any run changes the relation of a media record that exists, whatever
\* owner ref the upsert is given.
C20_RelationSetAtCreateOnly ==
    []NoUpdateSendsRelation /\ [][RelationsKept]_vars

\* The loop has just updated a media record whose relation is another page
\* than the owner ref the upsert was given: the relation stayed.
C20_Witness ==
    /\ pc = "resolve" /\ k > 0 /\ log # <<>>
    /\ LET c == log[Len(log)]
       IN /\ c.op = "update" /\ c.db = "video" /\ c.res = "ok"
          /\ IsChannelRef(channel_entry_id)
          /\ IsChannelRef(video_db[PageIndex(c.key)]["Channel"])
          /\ video_db[PageIndex(c.key)]["Channel"] # channel_entry_id

\* The positions in the log of the creates of a channel page for owner id c,
\* and of the existence queries for it.
OwnerCreates(c) ==
    {j \in 1..Len(log) : /\ log[j].op = "create" /\ log[j].db = "channel"
                         /\ log[j].payload["Channel Id"] = c}

OwnerQueries(c) ==
    {j \in 1..Len(log) : log[j].op = "query" /\ log[j].db = "channel" /\ log[j].key = c}

\* A run that found no channel page of owner id c in the store and in which
\* every store call made so far succeeded.
OwnerAbsentAllOk(c) ==
    /\ runs > 0 /\ pc \in {"resolve", "upsert", "done"}
    /\ ~HasChannel(at_start.channel_db, c)
    /\ \A j \in 1..Len(log) : log[j].res = "ok"

\* The media pages in the store of the items of this run whose owner id is c.
MediaPagesOf(c) ==
    {v \in 1..Len(video_db) :
        \E m \in 1..Len(all_data) :
            /\ all_data[m]["Channel Id"] = c
            /\ all_data[m]["Video Id"] = video_db[v]["Video Id"]}

\* One create per owner: none before the first resolution of c, one after
\* it, made right after the first existence query for c; the ref in hand
\* for an item of c, and the relation of every media page of c, is its id.
SharedOwnerOneCreate ==
    \A c \in {ChanA, ChanA8} :
        OwnerAbsentAllOk(c) =>
            /\ Cardinality(OwnerCreates(c)) = (IF OwnerQueries(c) # {} THEN 1 ELSE 0)
            /\ \A j \in OwnerCreates(c) :
                  /\ j - 1 \in OwnerQueries(c)
                  /\ \A q \in OwnerQueries(c) : q >= j - 1
                  /\ Truthy(log[j].key)
                  /\ (pc = "upsert" /\ all_data[k + 1]["Channel Id"] = c) =>
                         channel_entry_id = log[j].key
                  /\ \A v \in MediaPagesOf(c) : video_db[v]["Channel"] = log[j].key

\* A resolution for an item of owner c, in such a run, returns a ref and the
\* loop goes on to the upsert of the item.
ResolvesToRef ==
    \A c \in {ChanA, ChanA8} :
        (/\ pc = "resolve" /\ k < Len(all_data) /\ log' # log
         /\ all_data[k + 1]["Channel Id"] = c
         /\ OwnerAbsentAllOk(c)') =>
            pc' = "upsert" /\ Truthy(channel_entry_id')

\* C21: in a run over several media records of one owner id, the owner
\* absent from the store at the start and every store call succeeding,
\* exactly one channel create is issued, at the resolution of the first such
\* record; every later record resolves to the ref that create returned, and
\* the media records of all of them relate to it.
C21_SharedOwnerCreatedOnce ==
    []SharedOwnerOneCreate /\ [][ResolvesToRef]_vars

\* A run over two videos of one channel that the store did not hold ended:
\* both media pages were created and both were written by this run.
C21_Witness ==
    /\ pc = "done" /\ OwnerAbsentAllOk(ChanA)
    /\ Len(all_data) = 2 /\ success_count = 2
    /\ \A m \in 1..2 : all_data[m]["Channel Id"] = ChanA
    /\ Cardinality(MediaPagesOf(ChanA)) = 2
    /\ Cardinality(OwnerQueries(ChanA)) = 2
    /\ Cardinality(OwnerCreates(ChanA)) = 1
    /\ at_start.video_db = <<>>

\* In the loop and at the summary the two counters add up to the number of
\* items the loop is done with; at the summary that is every item.
CountersAddUp ==
    /\ pc \in {"resolve", "upsert", "done"} => success_count + error_count = k
    /\ pc = "done" => success_count + error_count = Len(all_data)

\* A step of the loop that is done with an item adds one to exactly one of
\* the counters; any other step of the loop leaves both.
ItemCountedOnce ==
    pc \in {"resolve", "upsert"} =>
        IF k' # k
        THEN /\ k' = k + 1
             /\ \/ success_count' = success_count + 1 /\ error_count' = error_count
                \/ success_count' = success_count /\ error_count' = error_count + 1
        ELSE success_count' = success_count /\ error_count' = error_count

\* C22: at the summary succeeded + failed = total, the number of items of
\* the fetch; at every point of the loop succeeded + failed is the number of
\* items the loop is done with, and each item adds one to exactly one of
\* the two counters.
C22_CountersAccountForEveryItem ==
    []CountersAddUp /\ [][ItemCountedOnce]_vars

\* A run over two items reached the summary with one item counted as
\* succeeded and one skipped for want of an owner ref, no exception raised.
C22_Witness ==
    /\ pc = "done" /\ Len(all_data) = 2
    /\ success_count = 1 /\ error_count = 1
    /\ "error processing video" \notin {errors[j] : j \in 1..Len(errors)}
    /\ \E j \in 1..Len(log) : log[j].db = "channel" /\ log[j].res # "ok"

(***************************************************************************)
(* Properties of the loop, under SpecLoop.                                 *)
(***************************************************************************)
\* The step with which the loop is done with an item whose processing
\* failed: the item is counted as failed (no owner ref, or an exception left
\* the body), or a call of its add_data_to_notion did not succeed.
ItemFailsStep ==
    /\ pc \in {"resolve", "upsert"} /\ k < Len(all_data) /\ k' = k + 1
    /\ \/ error_count' = error_count + 1
       \/ /\ pc = "upsert"
          /\ \E c \in (Len(log) + 1)..Len(log') : log'[c].res # "ok"

\* The ids of the pages of database db that the first n calls wrote.
WrittenBy(calls, n, db) ==
    {calls[c].key : c \in {c \in 1..n : /\ calls[c].db = db /\ calls[c].res = "ok"
                                        /\ calls[c].op \in {"create", "update"}}}

\* The pages the items before the one the loop is done with wrote are as
\* they were when the loop took that item up.
EarlierWritesKept ==
    /\ \A id \in WrittenBy(log', before_item'.calls, "channel") :
          channel_db'[PageIndex(id)] = before_item'.channel_db[PageIndex(id)]
    /\ \A id \in WrittenBy(log', before_item'.calls, "video") :
          video_db'[PageIndex(id)] = before_item'.video_db[PageIndex(id)]

\* Since the loop took the item up no page was removed, no page of another
\* Channel Id or Video Id than the item's was changed, and every page added
\* carries the item's Channel Id or Video Id.
OnlyOwnRecordsTouched ==
    LET item == all_data[k + 1]
        was == before_item'
    IN /\ Len(channel_db') >= Len(was.channel_db)
       /\ Len(video_db') >= Len(was.video_db)
       /\ \A j \in 1..Len(channel_db') :
             IF j <= Len(was.channel_db) /\ was.channel_db[j]["Channel Id"] # item["Channel Id"]
             THEN channel_db'[j] = was.channel_db[j]
             ELSE channel_db'[j]["Channel Id"] = item["Channel Id"]
       /\ \A j \in 1..Len(video_db') :
             IF j <= Len(was.video_db) /\ was.video_db[j]["Video Id"] # item["Video Id"]
             THEN video_db'[j] = was.video_db[j]
             ELSE video_db'[j]["Video Id"] = item["Video Id"]

\* C23 as stated: when the processing of an item fails, every record an
\* earlier item of the run created or updated is exactly as that item left
\* it, and the failing item changed no record but its own owner's and its
\* own media record.
C23_EarlierRecordsLeftAsWritten ==
    [][ItemFailsStep => EarlierWritesKept /\ OnlyOwnRecordsTouched]_vars

\* C23: no rollback.  When the processing of an item fails, no record is
\* removed, and no record is changed but the channel record of the item's
\* own Channel Id and the media record of its own Video Id: the records of
\* earlier items, but for the channel record of an earlier item of the same
\* owner, are exactly as those items left them.
C23_FailedItemTouchesOnlyOwnRecords ==
    [][ItemFailsStep => OnlyOwnRecordsTouched]_vars

\* The loop is done with the second of two items of one owner, which
\* failed after its owner resolution had updated the channel record the
\* first item created; the first item's media record is in the store.
C23_Witness ==
    /\ pc = "resolve" /\ k = 2
    /\ all_data[1]["Channel Id"] = all_data[2]["Channel Id"]
    /\ Len(channel_db) = Len(before_item.channel_db)
    /\ channel_db # before_item.channel_db
    /\ WrittenBy(log, before_item.calls, "channel") # {}
    /\ HasVideo(video_db, all_data[1]["Video Id"])
    /\ ~HasVideo(video_db, all_data[2]["Video Id"])
    /\ \/ errors = <<"error processing video">>
       \/ log[Len(log)].res # "ok"

(***************************************************************************)
(* Properties of get_video_stats, under SpecFetch.                         *)
(***************************************************************************)
RECURSIVE Flatten(_)
Flatten(seqs) == IF seqs = <<>> THEN <<>> ELSE Head(seqs) \o Flatten(Tail(seqs))

\* ceil(n / YOUTUBE_BATCH_SIZE)
NumChunks(n) == (n + YOUTUBE_BATCH_SIZE - 1) \div YOUTUBE_BATCH_SIZE

\* C8: for n identifiers get_video_stats issues exactly ceil(n/50) fetch
\* calls; every chunk but the last has 50 ids, the last has the remaining
\* n - 50*(ceil(n/50)-1); chunk c is the contiguous run of the input that
\* starts at offset 50*(c-1), and the chunks concatenated are the input.
C8_BatchChunking ==
    pc = "fetched" =>
        LET n == Len(video_ids)
            m == NumChunks(n)
        IN /\ Len(fetches) = m
           /\ \A c \in 1..m :
                /\ Len(fetches[c].batch) =
                       IF c < m THEN YOUTUBE_BATCH_SIZE
                       ELSE n - YOUTUBE_BATCH_SIZE * (m - 1)
                /\ \A j \in 1..Len(fetches[c].batch) :
                       fetches[c].batch[j] = video_ids[YOUTUBE_BATCH_SIZE * (c - 1) + j]
           /\ Flatten([c \in 1..m |-> fetches[c].batch]) = video_ids

\* 120 identifiers were fetched in three calls of 50, 50 and 20.
C8_Witness ==
    /\ pc = "fetched" /\ Len(video_ids) = 120
    /\ [c \in 1..Len(fetches) |-> Len(fetches[c].batch)] = <<50, 50, 20>>

\* The ids a fetch call contributes to all_data: none when it failed, else
\* those the catalog knows, less the items whose processing raised.
Contributed(f) ==
    IF f.out # "ok" THEN <<>>
    ELSE SelectSeq(f.batch, LAMBDA v : InCatalog(v) /\ v \notin f.bad)

\* C9: a chunk whose fetch fails is fetched exactly once (no two fetch calls
\* share an offset) and contributes nothing; every chunk of the input is
\* still fetched, and the items of the chunks that did not fail are all in
\* the result, in order: the function returns and no failure ends the loop.
C9_FailedChunkSkippedNotRetried ==
    /\ \A c, d \in 1..Len(fetches) : fetches[c].offset = fetches[d].offset => c = d
    /\ pc = "fetched" =>
          /\ {fetches[c].offset : c \in 1..Len(fetches)} =
                 {YOUTUBE_BATCH_SIZE * (c - 1) : c \in 1..NumChunks(Len(video_ids))}
          /\ [j \in 1..Len(all_data) |-> all_data[j]["Video Id"]] =
                 Flatten([c \in 1..Len(fetches) |-> Contributed(fetches[c])])

\* A chunk failed, a later chunk was fetched and its items are in the result.
C9_Witness ==
    /\ pc = "fetched"
    /\ \E c, d \in 1..Len(fetches) :
          /\ c < d /\ fetches[c].out = "raised" /\ fetches[d].out = "ok"
          /\ \E j \in 1..Len(all_data) : all_data[j]["Video Id"] = fetches[d].batch[1]
          /\ \A j \in 1..Len(all_data) : all_data[j]["Video Id"] # fetches[c].batch[1]

(***************************************************************************)
(* Properties of the two store operations, under SpecOps.                 *)
(***************************************************************************)
\* The fields the diff of a media record is about.
MutableVideoKeys == {"Name", "Date", "Duration", "Thumbnail", "URL",
                     "Category Id", "Category Name"}

\* Two upserts in succession, same record, same owner ref, every call
\* succeeding, the first on a store without the record.
UpsertTwice ==
    /\ prev.fn = "upsert" /\ last.fn = "upsert"
    /\ prev.data = last.data /\ prev.owner = last.owner
    /\ prev.allok /\ last.allok
    /\ ~HasVideo(prev.video_before, prev.data["Video Id"])

\* C1: the media upsert run twice in succession with the same record and the
\* same owner ref, from a store without that Video Id and with every call
\* succeeding, creates once in the first run; the second run finds the record
\* and issues no create and no update.
C1_UpsertTwiceCreatedThenUnchanged ==
    UpsertTwice =>
        /\ Count(prev.calls, {"create"}, "video") = 1
        /\ Count(last.calls, {"query"}, "video") = 1
        /\ Count(last.calls, {"create"}, "video") = 0
        /\ Count(last.calls, {"update"}, "video") = 0

\* The upsert found a page and read it: the values read back, per get call.
ReadBack(op, c) ==
    get_existing_video_data(op.video_before, op.calls[c].key,
                            [q |-> "ok", g |-> "ok", w |-> "ok", order |-> "asc"]).data

\* C2: when the values read back from an existing media record for name,
\* date, duration, thumbnail, URL, category id and category name all equal
\* the incoming ones, no update (PATCH) is issued.
C2_NoWriteOnNoDiff ==
    last.fn = "upsert" =>
        \A c \in 1..Len(last.calls) :
            (/\ last.calls[c].op = "get" /\ last.calls[c].res = "ok"
             /\ \A key \in MutableVideoKeys : ReadBack(last, c)[key] = last.data[key])
            => Count(last.calls, {"update"}, "video") = 0

\* C3: the media upsert called with a null owner ref issues no remote call
\* at all (no query, no get, no create, no update) and leaves the store as
\* it was.
C3_NullOwnerSkipped ==
    (last.fn = "upsert" /\ last.owner = None) =>
        /\ last.calls = <<>>
        /\ video_db = last.video_before

\* Two resolver calls in succession with the same name, id, logo URL and
\* custom URL, every call succeeding.
ResolveTwice ==
    /\ prev.fn = "resolve" /\ last.fn = "resolve"
    /\ prev.args = last.args
    /\ prev.allok /\ last.allok

\* C6: each call of the entity resolver issues at most one existence query
\* and at most one write, and a second call with the same arguments after a
\* first that succeeded finds the record, writes nothing and returns the
\* same ref.
C6_ResolverOneQueryOneWriteIdempotent ==
    /\ last.fn = "resolve" =>
          /\ Count(last.calls, {"query"}, "channel") <= 1
          /\ Count(last.calls, {"create", "update"}, "channel") <= 1
    /\ ResolveTwice =>
          /\ Count(last.calls, {"create", "update"}, "channel") = 0
          /\ last.ret = prev.ret

\* C7: a lookup by identity only ever finds a page whose identity field
\* equals the identity looked up: every page an upsert or a resolver call
\* reads or updates carries exactly the Video Id (Channel Id) it was called
\* with, also when another stored identity has it as a prefix.
C7_ExactMatchIdentity ==
    /\ last.fn = "upsert" =>
          \A c \in 1..Len(last.calls) :
              last.calls[c].op \in {"get", "update"} =>
                  last.video_before[PageIndex(last.calls[c].key)]["Video Id"]
                      = last.data["Video Id"]
    /\ last.fn = "resolve" =>
          /\ \A c \in 1..Len(last.calls) :
                last.calls[c].op \in {"get", "update"} =>
                    last.channel_before[PageIndex(last.calls[c].key)]["Channel Id"]
                        = last.args[2]
          /\ Truthy(last.ret) => channel_db[PageIndex(last.ret)]["Channel Id"] = last.args[2]

\* A store that holds "abc123" and not "abc" was asked for "abc": the upsert
\* found nothing, created the page and left the page of "abc123" as it was.
C7_Witness ==
    /\ last.fn = "upsert" /\ last.data["Video Id"] = VidAbc
    /\ HasVideo(last.video_before, VidAbc123)
    /\ ~HasVideo(last.video_before, VidAbc)
    /\ Count(last.calls, {"create"}, "video") = 1
    /\ Count(last.calls, {"get", "update"}, "video") = 0
    /\ last.allok
    /\ SubSeq(video_db, 1, Len(last.video_before)) = last.video_before

\* The update calls of the last upsert.
UpdateCalls == {c \in 1..Len(last.calls) : last.fn = "upsert" /\ last.calls[c].op = "update"}

\* The fields of the stored record that differ from the incoming ones.
Changed(c) == {key \in MutableVideoKeys : ReadBack(last, c)[key] # last.data[key]}

\* C12, as the specification has it: the update write of a media record
\* holds only the fields
\* that changed and the identity field (and the cover, which goes with the
\* thumbnail); a field whose stored value equals the incoming one is not in
\* the payload.
C12_UpdateOnlyChangedFields ==
    \A c \in UpdateCalls :
        Sent(last.calls[c].payload) \ {"cover"} \subseteq Changed(c) \cup {"Video Id"}

\* The first n units of a text.
FirstUnits(s, n) == [j \in 1..(IF Len(s) < n THEN Len(s) ELSE n) |-> s[j]]

\* C12, amended: the update write of a media record holds Name, Video Id,
\* Date, Duration, Category Id and Category Name whether they changed or
\* not, Thumbnail and the cover exactly when the incoming thumbnail is not
\* null, URL exactly when the incoming URL is not null, and never the
\* relation; every value sent is the incoming one, the name cut to 2000.
C12_UpdateWritesIncomingRecord ==
    \A c \in UpdateCalls :
        LET payload == last.calls[c].payload
            data == last.data
        IN /\ Sent(payload) =
                {"Name", "Video Id", "Date", "Duration", "Category Id", "Category Name"}
                \cup (IF Truthy(data["Thumbnail"]) THEN {"Thumbnail", "cover"} ELSE {})
                \cup (IF Truthy(data["URL"]) THEN {"URL"} ELSE {})
           /\ \A p \in Sent(payload) \ {"Name", "cover"} : payload[p] = data[p]
           /\ payload["Name"] = FirstUnits(data["Name"], 2000)
           /\ "cover" \in Sent(payload) => payload["cover"] = data["Thumbnail"]

\* An update was written for a record of which one field changed and
\* another did not: the unchanged one is in the payload too.
C12_Witness ==
    \E c \in UpdateCalls :
        /\ last.calls[c].res = "ok"
        /\ Changed(c) # {}
        /\ \E key \in MutableVideoKeys \ Changed(c) : key \in Sent(last.calls[c].payload)

\* The title or name the last call was given.
IncomingName == IF last.fn = "upsert" THEN last.data["Name"] ELSE last.args[1]

\* C16: the Name of every create and every update, of a media record or of
\* an owner's record, is at most 2000 units long and is the first 2000
\* units of the title or name the call was given.
C16_NamesCutTo2000 ==
    \A c \in 1..Len(last.calls) :
        last.calls[c].op \in {"create", "update"} =>
            /\ Len(last.calls[c].payload["Name"]) <= 2000
            /\ last.calls[c].payload["Name"] = FirstUnits(IncomingName, 2000)

\* A media record with a title of 2001 units was created and then updated:
\* both writes carry the first 2000 units, and so does the stored page.
C16_Witness ==
    /\ prev.fn = "upsert" /\ last.fn = "upsert"
    /\ Len(prev.data["Name"]) = 2001 /\ Len(last.data["Name"]) = 2001
    /\ \E c \in 1..Len(prev.calls) :
          /\ prev.calls[c].op = "create" /\ prev.calls[c].res = "ok"
          /\ Len(prev.calls[c].payload["Name"]) = 2000
    /\ \E c \in UpdateCalls :
          /\ last.calls[c].res = "ok" /\ Len(last.calls[c].payload["Name"]) = 2000
          /\ Len(video_db[PageIndex(last.calls[c].key)]["Name"]) = 2000

\* The last resolver call found a page and read it: the get calls that
\* succeeded.
ResolverReads ==
    {c \in 1..Len(last.calls) :
        last.fn = "resolve" /\ last.calls[c].op = "get" /\ last.calls[c].res = "ok"}

\* name, logoUrl or customUrl of the stored page differs from the incoming one.
OwnerDiffers(page) ==
    \/ page["Name"] # last.args[1]
    \/ page["icon"] # last.args[3]
    \/ page["URL"] # last.args[4]

\* C19: the entity resolver, having found and read an existing record,
\* issues an update exactly when the stored name, logo URL or custom URL
\* differs from the incoming one, and returns the ref of the record found
\* in both cases.
C19_ResolverUpdatesOnAnyMutableDiff ==
    \A c \in ResolverReads :
        /\ Count(last.calls, {"update"}, "channel") = 1
              <=> OwnerDiffers(last.channel_before[PageIndex(last.calls[c].key)])
        /\ last.ret = last.calls[c].key

(***************************************************************************)
(* Properties of update_video_entry, under SpecDiff.                       *)
(***************************************************************************)
\* The fields both the record read back and the incoming record hold.
SharedKeys == ExistingVideoKeys \cap DOMAIN last.data

\* C13: update_video_entry, having read the stored record, issues an update
\* exactly when a field held by both the record read back and the incoming
\* record differs: a field the incoming record lacks never causes an
\* update, and a field the record read back lacks (Video Id, Channel Id,
\* the channel's URLs) is ignored.
C13_DiffOnlySharedFields ==
    (last.fn = "update" /\ last.calls[1].res = "ok") =>
        (Count(last.calls, {"update"}, "video") = 1
            <=> \E key \in SharedKeys : ReadBack(last, 1)[key] # last.data[key])

\* The incoming record lacks the duration and the owner's name, the stored
\* record has a duration, the fields both hold are equal: no update.
C13_Witness ==
    /\ last.fn = "update" /\ last.calls[1].res = "ok"
    /\ "Duration" \notin DOMAIN last.data /\ "Channel" \notin DOMAIN last.data
    /\ SharedKeys # {}
    /\ Truthy(last.video_before[1]["Duration"])
    /\ Count(last.calls, {"update"}, "video") = 0

(***************************************************************************)
(* Properties of the normalizer's functions, under SpecPure.               *)
(***************************************************************************)
\* The place of a resolution in the order of preference.
Rank(r) ==
    CASE r = "maxres" -> 1 [] r = "standard" -> 2 [] r = "high" -> 3
      [] r = "medium" -> 4 [] r = "default" -> 5

\* C14: for every subset of the five resolutions get_thumbnail_url returns
\* the URL of the present resolution that comes first in the order maxres,
\* standard, high, medium, default: the URL of high when only medium and
\* high are present, of default when it is alone, and null when the subset
\* is empty.
C14_ThumbnailPreference ==
    last.fn = "get_thumbnail_url" =>
        LET thumbnails == last.arg
            present == DOMAIN thumbnails
        IN /\ present = {} => last.ret = None
           /\ \A r \in present :
                 (\A other \in present : Rank(r) <= Rank(other)) => last.ret = thumbnails[r]
           /\ present = {"medium", "high"} => last.ret = thumbnails["high"]
           /\ present = {"default"} => last.ret = thumbnails["default"]

\* Thumbnails at medium and high only: the URL of high was returned.
C14_Witness ==
    /\ last.fn = "get_thumbnail_url"
    /\ DOMAIN last.arg = {"medium", "high"}
    /\ last.ret = last.arg["high"] /\ last.ret # last.arg["medium"]

\* The non-zero ones of hours, minutes, seconds, in that order, each with
\* its word; the zero token when all three are zero.
Rendered(h, m, s_) ==
    LET parts == (IF h # 0 THEN <<h, WordHours[1]>> ELSE <<>>)
                 \o (IF m # 0 THEN <<m, WordMins[1]>> ELSE <<>>)
                 \o (IF s_ # 0 THEN <<s_, WordSecs[1]>> ELSE <<>>)
    IN IF h = 0 /\ m = 0 /\ s_ = 0 THEN ZeroDuration ELSE parts

\* C15: convert_duration returns a value for every input: the fixed token
\* "Unknown" for a malformed duration; for a valid one, with components
\* days, hours (under 24), minutes (under 60) and seconds (under 60), the
\* non-zero ones of hours, minutes and seconds in that order, and the fixed
\* token "0s" when all three are zero.
C15_DurationRendering ==
    last.fn = "convert_duration" =>
        IF last.arg < 0
        THEN last.ret = UnknownDuration
        ELSE \E d \in 0..(MaxDays + 1), h \in 0..23, m \in 0..59, s_ \in 0..59 :
                /\ last.arg = 86400 * d + 3600 * h + 60 * m + s_
                /\ last.ret = Rendered(h, m, s_)

\* A malformed duration gave the token "Unknown".
C15_Witness ==
    /\ last.fn = "convert_duration" /\ last.arg < 0
    /\ last.ret = UnknownDuration /\ last.ret # ZeroDuration

\* The number a rendering gives for a word (hours, mins, secs): the number
\* before the word, 0 when the rendering leaves the word out.
ComponentOf(ret, word) ==
    IF \E j \in 2..Len(ret) : ret[j] = word[1]
    THEN ret[(CHOOSE j \in 2..Len(ret) : ret[j] = word[1]) - 1]
    ELSE 0

\* C24: for every valid duration of T whole seconds, T of 24 hours or more
\* included, the components convert_duration renders account for all of it:
\* hours * 3600 + minutes * 60 + seconds = T, with minutes and seconds below
\* 60 and a component left out counting as 0.
C24_ComponentsAccountForWholeDuration ==
    (last.fn = "convert_duration" /\ last.arg >= 0) =>
        LET hours == ComponentOf(last.ret, WordHours)
            minutes == ComponentOf(last.ret, WordMins)
            seconds == ComponentOf(last.ret, WordSecs)
        IN /\ hours * 3600 + minutes * 60 + seconds = last.arg
           /\ minutes < 60 /\ seconds < 60

====
